---- MODULE Spec2Model ----
(***************************************************************************)
(* Model of MAVProxy/modules/mavproxy_breaker.py (class BreakerModule).    *)
(*                                                                         *)
(* State: the host's live-connection list (mpstate.mav_outputs), the       *)
(* identity-route map (mpstate.sysid_outputs) and the module's tracked     *)
(* device set (self._devices).  A connection is an identifier 1..n into    *)
(* conns, which records the device string it was established with;         *)
(* closes counts the close() calls made on each connection.                *)
(* last is the history record of the most recent operation: what it was,   *)
(* the state it started from, the connections it closed, what it raised.   *)
(* command is <<args>> when the most recent operation was handle_command   *)
(* with the argument list args, <<>> otherwise.                            *)
(***************************************************************************)
EXTENDS Integers, Sequences, FiniteSets, TLC

VARIABLES mav_outputs, sysid_outputs, devices, conns, closes, last,
          command

vars == <<mav_outputs, sysid_outputs, devices, conns, closes, last,
          command>>

-----------------------------------------------------------------------------
(* Bounds and input alphabets *)

\* connections established over one run
MaxConns == 3

\* device strings given to "breaker add" / "breaker sysid"
Devices == {"a", "b", "udp:a", "0"}

\* system ids given to "breaker sysid"
Sysids == {"7"}

\* str(i) for the list indices the model can reach
Digits == <<"0", "1", "2", "3", "4", "5", "6", "7", "8", "9">>

Str(i) == Digits[i + 1]

\* selectors given to "breaker remove": devices, indices, an unknown string
Selectors == Devices \cup {"0", "1", "zz"}

\* breach_status values of a FENCE_STATUS message (uint8 in MAVLink)
BreachValues == {0, 1, 2}

-----------------------------------------------------------------------------
(* Helpers *)

\* conn.address of the connection that mavutil.mavlink_connection returns
\* for a device string: the device without its transport prefix
\* ("udp:host:port" gives "host:port"), the device itself otherwise
Address(device) == IF device = "udp:a" THEN "a" ELSE device

\* list.pop() without the index: drops the last item
PopLast(s, i) == SubSeq(s, 1, Len(s) - 1)

\* list.pop(i) with a 0-based index
Pop(s, i) == SubSeq(s, 1, i) \o SubSeq(s, i + 2, Len(s))

Range(s) == {s[k] : k \in 1..Len(s)}

\* all orders in which a set can be iterated
Orders(S) == {o \in [1..Cardinality(S) -> S] : Range(o) = S}

NoOp == [op |-> "init", arg |-> "", status |-> 0, ok |-> FALSE,
         pre_outputs |-> <<>>, pre_sysid |-> <<>>, pre_devices |-> {},
         closed |-> <<>>, err |-> "none", sysid |-> "", events |-> <<>>,
         after_breach |-> FALSE]

\* history record of an operation applied in the current state;
\* after_breach tells whether the operation before it was a handled breach
Record(op, arg, status, ok, closed, err) ==
    [op |-> op, arg |-> arg, status |-> status, ok |-> ok,
     pre_outputs |-> mav_outputs, pre_sysid |-> sysid_outputs,
     pre_devices |-> devices, closed |-> closed, err |-> err,
     sysid |-> "", events |-> <<>>,
     after_breach |-> (last.op = "packet" /\ last.ok)]

\* conn.close() on each connection of a sequence, in order
CloseAll(cl, ids) ==
    [k \in 1..Len(cl) |->
        cl[k] + Cardinality({j \in 1..Len(ids) : ids[j] = k})]

-----------------------------------------------------------------------------
(* handle_remove *)

\* line 74 with the index counted from 1
MatchesOneBased(i, conn, device) ==
    Str(i + 1) = device \/ Address(conns[conn]) = device

\* the test of line 74
Matches(i, conn, device) ==
    Str(i) = device \/ Address(conns[conn]) = device

\* the for/enumerate loop of handle_remove over a list that pop() mutates
\* while it is iterated: st = [outputs, devices, closed], i = the iteration
\* count, which is both the enumerate index and the list iterator position
RECURSIVE RemoveLoop(_, _, _)
RemoveLoop(st, i, device) ==
    IF i >= Len(st.outputs) THEN st
    ELSE IF Matches(i, st.outputs[i + 1], device)
         THEN RemoveLoop([outputs |-> Pop(st.outputs, i),
                          devices |-> st.devices \ {device},
                          closed  |-> Append(st.closed, st.outputs[i + 1]),
                          err     |-> st.err],
                         i + 1, device)
         ELSE RemoveLoop(st, i + 1, device)

RemoveResult(st, device) == RemoveLoop(st, 0, device)

Start == [outputs |-> mav_outputs, devices |-> devices,
          closed |-> <<>>, err |-> "none"]

Step(rec) == last' = rec

\* no path of handle_remove raises: pop(i) is applied to the position of
\* the item the loop is at
HandleRemove(device) ==
    LET r == RemoveResult(Start, device) IN
    /\ mav_outputs' = r.outputs
    /\ devices' = r.devices
    /\ closes' = CloseAll(closes, r.closed)
    /\ Step(Record("remove", device, 0, TRUE, r.closed, "none"))
    /\ UNCHANGED <<sysid_outputs, conns>>

-----------------------------------------------------------------------------
(* handle_add *)

\* handle_add with line 70 moved in front of the try block
HandleAddTrackFirst(device) ==
    \E ok \in BOOLEAN :
       /\ ok => Len(conns) < MaxConns
       /\ devices' = devices \cup {device}
       /\ IF ok
          THEN /\ conns' = Append(conns, device)
               /\ closes' = Append(closes, 0)
               /\ mav_outputs' = Append(mav_outputs, Len(conns) + 1)
          ELSE UNCHANGED <<conns, closes, mav_outputs>>
       /\ Step(Record("add", device, 0, ok, <<>>, "none"))
       /\ UNCHANGED sysid_outputs

\* ok is the outcome of mavutil.mavlink_connection and of the assignment of
\* srcComponent (lines 55-62); the registration of the descriptor (lines
\* 64-68) changes nothing here and its failure is swallowed
HandleAdd(device) ==
    \E ok \in BOOLEAN :
       /\ ok => Len(conns) < MaxConns
       /\ IF ok
          THEN /\ conns' = Append(conns, device)
               /\ closes' = Append(closes, 0)
               /\ mav_outputs' = Append(mav_outputs, Len(conns) + 1)
               /\ devices' = devices \cup {device}
          ELSE UNCHANGED <<conns, closes, mav_outputs, devices>>
       /\ Step(Record("add", device, 0, ok, <<>>, "none"))
       /\ UNCHANGED sysid_outputs

-----------------------------------------------------------------------------
(* handle_list and the usage messages *)

HandleList ==
    /\ Step(Record("list", "", 0, TRUE, <<>>, "none"))
    /\ UNCHANGED <<mav_outputs, sysid_outputs, devices, conns, closes>>

\* print a usage line and return
Usage(arg) ==
    /\ Step(Record("usage", arg, 0, FALSE, <<>>, "none"))
    /\ UNCHANGED <<mav_outputs, sysid_outputs, devices, conns, closes>>

\* self.handle_breaker(...): BreakerModule defines no such attribute, the
\* call raises AttributeError before anything is mutated
HandleBreaker(sysid, device) ==
    /\ Step([Record("sysid", device, 0, FALSE, <<>>, "AttributeError")
                EXCEPT !.sysid = sysid])
    /\ UNCHANGED <<mav_outputs, sysid_outputs, devices, conns, closes>>

-----------------------------------------------------------------------------
(* handle_sysid *)

HasRoute(sysid) == \E k \in 1..Len(sysid_outputs) : sysid_outputs[k][1] = sysid

RouteOf(sysid) ==
    LET k == CHOOSE k \in 1..Len(sysid_outputs) : sysid_outputs[k][1] = sysid
    IN  sysid_outputs[k][2]

\* sysid_outputs[sysid] = conn on a dict kept as a sequence of <<key, conn>>
\* pairs in insertion order
SetRoute(sysid, conn) ==
    IF HasRoute(sysid)
    THEN [k \in 1..Len(sysid_outputs) |->
            IF sysid_outputs[k][1] = sysid THEN <<sysid, conn>>
            ELSE sysid_outputs[k]]
    ELSE Append(sysid_outputs, <<sysid, conn>>)

\* lines 99-101 with the store before the close
SysidEffectsStoreFirst(old, new) ==
    <<<<"store", new>>>> \o [k \in 1..Len(old) |-> <<"close", old[k]>>]

\* the effects of lines 99-101 in the order the code makes them: close()
\* on the connection routed so far (old, a sequence of at most one), then
\* the store of the new connection
SysidEffects(old, new) ==
    [k \in 1..Len(old) |-> <<"close", old[k]>>] \o <<<<"store", new>>>>

\* the connections named by the effects of one kind, in order
Affected(events, kind) ==
    LET pick == SelectSeq(events, LAMBDA e : e[1] = kind)
    IN  [k \in 1..Len(pick) |-> pick[k][2]]

\* ok is the outcome of lines 87-94, as in handle_add
HandleSysid(sysid, device) ==
    \E ok \in BOOLEAN :
       /\ ok => Len(conns) < MaxConns
       /\ IF ok
          THEN LET old == IF HasRoute(sysid) THEN <<RouteOf(sysid)>> ELSE <<>>
                   new == Len(conns) + 1
                   ev  == SysidEffects(old, new)
               IN  /\ conns' = Append(conns, device)
                   /\ closes' = CloseAll(Append(closes, 0),
                                         Affected(ev, "close"))
                   /\ sysid_outputs' = SetRoute(sysid, Affected(ev, "store")[1])
                   /\ devices' = devices \cup {device}
                   /\ Step([Record("handle_sysid", device, 0, TRUE,
                                   Affected(ev, "close"), "none")
                              EXCEPT !.sysid = sysid, !.events = ev])
          ELSE /\ UNCHANGED <<conns, closes, sysid_outputs, devices>>
               /\ Step([Record("handle_sysid", device, 0, FALSE, <<>>, "none")
                          EXCEPT !.sysid = sysid])
       /\ UNCHANGED mav_outputs

-----------------------------------------------------------------------------
(* handle_command *)

ArgLists ==
    {<<>>, <<"list">>, <<"add">>, <<"remove">>, <<"sysid">>, <<"bogus">>}
    \cup {<<"add", d>> : d \in Devices}
    \cup {<<"add", d, d>> : d \in {"a"}}
    \cup {<<"remove", s>> : s \in Selectors}
    \cup {<<"remove", s, s>> : s \in {"a"}}
    \cup {<<"sysid", s>> : s \in Sysids}
    \cup {<<"sysid", s, d>> : s \in Sysids, d \in Devices}

\* handle_command with "len(args) < 2" as the arity test of add
DispatchTooFew(args) ==
    IF args = <<>> \/ args[1] = "list" THEN HandleList
    ELSE IF args[1] = "add"
         THEN IF Len(args) < 2 THEN Usage("add") ELSE HandleAdd(args[2])
    ELSE IF args[1] = "remove"
         THEN IF Len(args) # 2 THEN Usage("remove") ELSE HandleRemove(args[2])
    ELSE IF args[1] = "sysid"
         THEN IF Len(args) # 3 THEN Usage("sysid")
              ELSE HandleBreaker(args[2], args[3])
    ELSE Usage("")

Dispatch(args) ==
    IF args = <<>> \/ args[1] = "list" THEN HandleList
    ELSE IF args[1] = "add"
         THEN IF Len(args) # 2 THEN Usage("add") ELSE HandleAdd(args[2])
    ELSE IF args[1] = "remove"
         THEN IF Len(args) # 2 THEN Usage("remove") ELSE HandleRemove(args[2])
    ELSE IF args[1] = "sysid"
         THEN IF Len(args) # 3 THEN Usage("sysid")
              ELSE HandleBreaker(args[2], args[3])
    ELSE Usage("")

HandleCommand(args) ==
    /\ Dispatch(args)
    /\ command' = <<args>>

-----------------------------------------------------------------------------
(* mavlink_packet *)

Messages ==
    {[type |-> "FENCE_STATUS", breach_status |-> b] : b \in BreachValues}
    \cup {[type |-> "HEARTBEAT", breach_status |-> 0]}

\* lines 107-108 without the test of the status field
IsBreachAnyStatus(m) == m.type = "FENCE_STATUS"

\* lines 107-108 with a truth test of the status field
IsBreachNonzero(m) == m.type = "FENCE_STATUS" /\ m.breach_status # 0

\* the tests of lines 107-108
IsBreach(m) == m.type = "FENCE_STATUS" /\ m.breach_status = 1

\* "for device in self._devices: self.handle_remove(device)".  order is the
\* order in which the set iterator yields the devices, k the next position.
\* The iterator compares the set's size with the size it started with on
\* every next() and raises RuntimeError when handle_remove has discarded.
RECURSIVE BreachLoop(_, _, _)
BreachLoop(st, order, k) ==
    IF Cardinality(st.devices) # Len(order)
    THEN [st EXCEPT !.err = "RuntimeError"]
    ELSE IF k > Len(order) THEN st
    ELSE BreachLoop(RemoveResult(st, order[k]), order, k + 1)

\* mavlink_packet with a breach branch that also closes and forgets the
\* identity routes
MavlinkPacketDropRoutes(m) ==
    /\ command' = <<>>
    /\ IF IsBreach(m)
       THEN \E order \in Orders(devices) :
               LET r == BreachLoop(Start, order, 1)
                   routed == [k \in 1..Len(sysid_outputs) |->
                                 sysid_outputs[k][2]]
               IN
               /\ mav_outputs' = r.outputs
               /\ devices' = r.devices
               /\ closes' = CloseAll(closes, r.closed \o routed)
               /\ sysid_outputs' = <<>>
               /\ Step(Record("packet", m.type, m.breach_status, TRUE,
                              r.closed \o routed, r.err))
               /\ UNCHANGED conns
       ELSE /\ Step(Record("packet", m.type, m.breach_status, FALSE,
                           <<>>, "none"))
            /\ UNCHANGED <<mav_outputs, sysid_outputs, devices, conns,
                           closes>>

MavlinkPacket(m) ==
    /\ command' = <<>>
    /\ IF IsBreach(m)
       THEN \E order \in Orders(devices) :
               LET r == BreachLoop(Start, order, 1) IN
               /\ mav_outputs' = r.outputs
               /\ devices' = r.devices
               /\ closes' = CloseAll(closes, r.closed)
               /\ Step(Record("packet", m.type, m.breach_status, TRUE,
                              r.closed, r.err))
               /\ UNCHANGED <<sysid_outputs, conns>>
       ELSE /\ Step(Record("packet", m.type, m.breach_status, FALSE,
                           <<>>, "none"))
            /\ UNCHANGED <<mav_outputs, sysid_outputs, devices, conns,
                           closes>>

-----------------------------------------------------------------------------
(* Specifications *)

Init ==
    /\ mav_outputs = <<>>
    /\ sysid_outputs = <<>>
    /\ devices = {}
    /\ conns = <<>>
    /\ closes = <<>>
    /\ last = NoOp
    /\ command = <<>>

Command == \E args \in ArgLists : HandleCommand(args)

Telemetry == \E m \in Messages : MavlinkPacket(m)

\* the module as the host drives it: commands and telemetry
Next == Command \/ Telemetry

Spec == Init /\ [][Next]_vars

\* the handlers called as methods, without the command dispatch: this is
\* the only way to handle_sysid, which "breaker sysid" never reaches
\* (HandleBreaker)
Direct(handler) ==
    /\ handler
    /\ command' = <<>>

DirectAdd == \E d \in Devices : Direct(HandleAdd(d))

DirectRemove == \E sel \in Selectors : Direct(HandleRemove(sel))

DirectSysid == \E s \in Sysids, d \in Devices : Direct(HandleSysid(s, d))

NextSysid == DirectAdd \/ DirectRemove \/ DirectSysid \/ Telemetry

SpecSysid == Init /\ [][NextSysid]_vars

\* commands only, no telemetry
NextCommands == Command

SpecCommands == Init /\ [][NextCommands]_vars

-----------------------------------------------------------------------------
(* Vocabulary of the properties *)

\* the last operation was a FENCE_STATUS message with this breach_status
FenceHandled(b) ==
    last.op = "packet" /\ last.arg = "FENCE_STATUS" /\ last.status = b

\* the step delivers a FENCE_STATUS message with this breach_status
FenceStep(b) ==
    last'.op = "packet" /\ last'.arg = "FENCE_STATUS" /\ last'.status = b

\* positions (from 1) of the connections of a list that a selector names,
\* by index-as-string or by address
Named(outs, sel) ==
    {k \in 1..Len(outs) : Str(k - 1) = sel \/ Address(conns[outs[k]]) = sel}

\* some device tracked before the last operation named a live connection
TrackedNamedBefore ==
    \E d \in last.pre_devices : Named(last.pre_outputs, d) # {}

Min(S) == CHOOSE x \in S : \A y \in S : x <= y

-----------------------------------------------------------------------------
(* Breach handling *)

\* C1: once a FENCE_STATUS message with breach status 1 has been handled,
\* every connection that was live with an address equal to a device tracked
\* when the message arrived has been closed and is no longer in the list.
C1_BreachClosesTracked ==
    FenceHandled(1) =>
        \A d \in last.pre_devices :
            \A k \in 1..Len(last.pre_outputs) :
                LET c == last.pre_outputs[k] IN
                Address(conns[c]) = d =>
                    closes[c] >= 1 /\ c \notin Range(mav_outputs)

\* C2: once a FENCE_STATUS message with breach status 1 has been handled,
\* the tracked device set is empty.
C2_BreachEmptiesTracked == FenceHandled(1) => devices = {}

\* C3: a breach message delivered right after a breach message changes
\* nothing and closes nothing.
C3_SecondBreachNoOp ==
    [][(FenceHandled(1) /\ FenceStep(1)) =>
          /\ mav_outputs' = mav_outputs
          /\ sysid_outputs' = sysid_outputs
          /\ devices' = devices
          /\ closes' = closes
          /\ last'.closed = <<>>]_vars

\* C4: a FENCE_STATUS message with breach status 0 removes nothing, closes
\* nothing and leaves the tracked device set alone.
C4_NoBreachNoChange ==
    [][FenceStep(0) =>
          /\ mav_outputs' = mav_outputs
          /\ devices' = devices
          /\ closes' = closes
          /\ last'.closed = <<>>]_vars

\* status 0 arrived while a tracked device named a live connection
C4_Witness ==
    /\ FenceHandled(0)
    /\ TrackedNamedBefore
    /\ mav_outputs = last.pre_outputs
    /\ mav_outputs # <<>>

\* C5 as stated: a FENCE_STATUS message with any nonzero breach status
\* tears down: when a tracked device named a live connection, a connection
\* was closed.
C5_NonzeroTearsDown ==
    (\E b \in BreachValues \ {0} : FenceHandled(b)) /\ TrackedNamedBefore
        => last.closed # <<>>

\* C5 amended: a FENCE_STATUS message starts the teardown exactly when its
\* breach status equals 1; with any other value, nonzero included, no
\* connection is closed or removed and the tracked set stays as it was.
C5_BreachOnlyOnOne ==
    /\ FenceHandled(1) /\ TrackedNamedBefore => last.closed # <<>>
    /\ \A b \in BreachValues \ {1} :
          FenceHandled(b) =>
              /\ last.closed = <<>>
              /\ mav_outputs = last.pre_outputs
              /\ devices = last.pre_devices

\* a status 1 message closed a tracked connection
C5_Witness ==
    /\ FenceHandled(1)
    /\ TrackedNamedBefore
    /\ last.closed # <<>>
    /\ Len(mav_outputs) < Len(last.pre_outputs)

-----------------------------------------------------------------------------
(* The remove command *)

\* C6: a successful add(d) of a device not added before, followed at once by
\* remove(d), restores the live-connection list and the tracked set.
C6_AddRemoveRoundTrip ==
    [][(/\ last.op = "add" /\ last.ok
        /\ last.arg \notin last.pre_devices
        /\ \A k \in 1..(Len(conns) - 1) : conns[k] # last.arg
        /\ last'.op = "remove" /\ last'.arg = last.arg) =>
          /\ mav_outputs' = last.pre_outputs
          /\ devices' = last.pre_devices]_vars

\* C7: remove(selector) closes and removes at most one connection, the
\* first one that the selector names.
C7_RemoveOnlyFirst ==
    last.op = "remove" =>
        LET named == Named(last.pre_outputs, last.arg) IN
        IF named = {}
        THEN last.closed = <<>> /\ mav_outputs = last.pre_outputs
        ELSE /\ last.closed = <<last.pre_outputs[Min(named)]>>
             /\ mav_outputs = Pop(last.pre_outputs, Min(named) - 1)

\* C8: after remove(x), x is not in the tracked device set.
C8_RemoveDiscards == last.op = "remove" => last.arg \notin devices

\* C9: remove with a selector that names no live connection leaves the list
\* as it is, closes nothing and raises nothing.
C9_RemoveNoMatchNoOp ==
    [][(last'.op = "remove" /\ Named(mav_outputs, last'.arg) = {}) =>
          /\ mav_outputs' = mav_outputs
          /\ closes' = closes
          /\ last'.closed = <<>>
          /\ last'.err = "none"]_vars

\* a remove that named none of the live connections
C9_Witness ==
    /\ last.op = "remove"
    /\ last.pre_outputs # <<>>
    /\ Named(last.pre_outputs, last.arg) = {}
    /\ mav_outputs = last.pre_outputs

\* C10: with at least two live connections remove("0") removes exactly the
\* first one, and a second remove("0") right after it removes exactly the
\* one that was at index 1; the others keep their order.
C10_RemoveZeroTwice ==
    [][/\ (last'.op = "remove" /\ last'.arg = "0" /\ Len(mav_outputs) >= 2) =>
            /\ last'.closed = <<mav_outputs[1]>>
            /\ mav_outputs' = Tail(mav_outputs)
       /\ (/\ last.op = "remove" /\ last.arg = "0"
           /\ Len(last.pre_outputs) >= 2
           /\ last'.op = "remove" /\ last'.arg = "0") =>
            /\ last'.closed = <<last.pre_outputs[2]>>
            /\ mav_outputs' = Tail(Tail(last.pre_outputs))]_vars

-----------------------------------------------------------------------------
(* Identity routes *)

\* the connections stored in an identity-route map
Routed(routes) == {routes[k][2] : k \in 1..Len(routes)}

\* the connections the registry holds
Held == Range(mav_outputs) \cup Routed(sysid_outputs)

\* positions of the entries of a map for one identity
EntriesFor(routes, sysid) == {k \in 1..Len(routes) : routes[k][1] = sysid}

\* C11: the identity-route map never holds two connections for one
\* identity; when handle_sysid succeeds twice in a row for the same sysid,
\* the map then holds exactly the second connection for it, open, and the
\* first connection was closed before the second one was stored.
C11_RouteReplaced ==
    /\ [](\A s \in Sysids : Cardinality(EntriesFor(sysid_outputs, s)) <= 1)
    /\ [][(/\ last.op = "handle_sysid" /\ last.ok
           /\ last'.op = "handle_sysid" /\ last'.ok
           /\ last'.sysid = last.sysid) =>
            LET first  == Len(conns)
                second == Len(conns')
                ev     == last'.events
            IN  /\ \A k \in EntriesFor(sysid_outputs', last.sysid) :
                      sysid_outputs'[k][2] = second
                /\ Cardinality(EntriesFor(sysid_outputs', last.sysid)) = 1
                /\ closes'[second] = 0
                /\ closes'[first] = 1
                /\ \E i, j \in 1..Len(ev) :
                      /\ i < j
                      /\ ev[i] = <<"close", first>>
                      /\ ev[j] = <<"store", second>>]_vars

\* a route was replaced: the connection routed before is closed, the map
\* holds the new one
C11_Witness ==
    /\ last.op = "handle_sysid" /\ last.ok
    /\ EntriesFor(last.pre_sysid, last.sysid) # {}
    /\ Len(last.closed) = 1
    /\ last.closed[1] \in Routed(last.pre_sysid)
    /\ closes[last.closed[1]] = 1
    /\ Len(conns) \in Routed(sysid_outputs)

\* C12: when the link cannot be established in handle_add or handle_sysid,
\* nothing is mutated: list, identity-route map, tracked set and close
\* counts stay as they were and no connection is created.
C12_ConnectFailureNoMutation ==
    [][(last'.op \in {"add", "handle_sysid"} /\ ~last'.ok) =>
          /\ mav_outputs' = mav_outputs
          /\ sysid_outputs' = sysid_outputs
          /\ devices' = devices
          /\ closes' = closes
          /\ conns' = conns]_vars

\* handle_sysid failed for an identity that has an open route, with a live
\* connection in the list
C12_Witness ==
    /\ last.op = "handle_sysid" /\ ~last.ok
    /\ \E k \in EntriesFor(sysid_outputs, last.sysid) :
          closes[sysid_outputs[k][2]] = 0
    /\ sysid_outputs = last.pre_sysid
    /\ mav_outputs # <<>>
    /\ last.arg \notin devices

\* C13: "breaker sysid <sysid> <deviceId>" with two arguments completes
\* and, unless the link could not be established, leaves a connection to
\* deviceId stored under sysid and deviceId tracked.
C13_SysidCommandStores ==
    (/\ command # <<>> /\ Len(command[1]) = 3
     /\ command[1][1] = "sysid") =>
        /\ last.err = "none"
        /\ last.op = "sysid"
        /\ last.ok =>
              /\ \E k \in EntriesFor(sysid_outputs, command[1][2]) :
                    conns[sysid_outputs[k][2]] = command[1][3]
              /\ command[1][3] \in devices

-----------------------------------------------------------------------------
(* Command dispatch *)

\* an argument list that the command surface does not accept
Malformed(args) ==
    /\ args # <<>>
    /\ \/ args[1] \in {"add", "remove"} /\ Len(args) # 2
       \/ args[1] = "sysid" /\ Len(args) # 3
       \/ args[1] \notin {"list", "add", "remove", "sysid"}

\* C14: a malformed command prints a usage line and mutates nothing: list,
\* identity-route map, tracked set and close counts are unchanged and no
\* connection is created.
C14_MalformedNoMutation ==
    [][(command' # <<>> /\ Malformed(command'[1])) =>
          /\ last'.op = "usage"
          /\ last'.err = "none"
          /\ mav_outputs' = mav_outputs
          /\ sysid_outputs' = sysid_outputs
          /\ devices' = devices
          /\ closes' = closes
          /\ conns' = conns]_vars

\* a malformed command arrived while connections were live and tracked
C14_Witness ==
    /\ command # <<>> /\ Malformed(command[1])
    /\ Len(command[1]) = 3
    /\ last.op = "usage"
    /\ mav_outputs # <<>> /\ mav_outputs = last.pre_outputs
    /\ devices # {}

-----------------------------------------------------------------------------
(* Consistency of the tracked set and the registry *)

\* C15: each tracked device has at most one open connection in the
\* registry.
C15_AtMostOneOpenPerTracked ==
    \A d \in devices :
        Cardinality({c \in Held : conns[c] = d /\ closes[c] = 0}) <= 1

\* C16: a connection closed by the last operation is in no collection: not
\* in the list, not in the identity-route map, and its device is not
\* tracked.
C16_NoDanglingReference ==
    \A k \in 1..Len(last.closed) :
        LET c == last.closed[k] IN
        /\ c \notin Range(mav_outputs)
        /\ c \notin Routed(sysid_outputs)
        /\ conns[c] \notin devices

\* C17: right after a handled breach a successful add(d) still appends
\* the new connection and tracks d, and a breach message that follows this
\* add closes and removes that connection.
C17_RearmedAfterBreach ==
    [][/\ (FenceHandled(1) /\ last'.op = "add" /\ last'.ok) =>
            /\ mav_outputs' = Append(mav_outputs, Len(conns'))
            /\ conns'[Len(conns')] = last'.arg
            /\ closes'[Len(conns')] = 0
            /\ devices' = devices \cup {last'.arg}
       /\ (/\ last.op = "add" /\ last.ok /\ last.after_breach
           /\ FenceStep(1)) =>
            /\ closes'[Len(conns)] = 1
            /\ Len(conns) \notin Range(mav_outputs')]_vars

\* C18: every live connection has its device in the tracked set.
C18_LiveIsTracked ==
    \A k \in 1..Len(mav_outputs) : conns[mav_outputs[k]] \in devices

-----------------------------------------------------------------------------
(* Telemetry and the identity routes; close() *)

\* C19: handling a telemetry message leaves the identity-route map as it is
\* and closes none of the connections stored in it.
C19_TelemetryKeepsRoutes ==
    [][last'.op = "packet" =>
          /\ sysid_outputs' = sysid_outputs
          /\ \A c \in Routed(sysid_outputs) : closes'[c] = closes[c]]_vars

\* a breach closed a live connection while a tracked device had an identity
\* route, which is still stored and open
C19_Witness ==
    /\ FenceHandled(1)
    /\ last.closed # <<>>
    /\ \E c \in Routed(sysid_outputs) :
          conns[c] \in last.pre_devices /\ closes[c] = 0
    /\ sysid_outputs = last.pre_sysid

\* C20: close() is called at most once on a connection, and every
\* connection in the list or in the identity-route map is open.
C20_ClosedOnceHeldOpen ==
    /\ \A c \in 1..Len(conns) : closes[c] <= 1
    /\ \A c \in Held : closes[c] = 0

\* one connection closed by a removal from the list, one by the replacement
\* of a route, and an open connection held
C20_Witness ==
    /\ \E c \in 1..Len(conns) : closes[c] = 1 /\ c \in Range(last.pre_outputs)
    /\ last.op = "remove" /\ last.closed # <<>>
    /\ \E c \in Routed(sysid_outputs) : closes[c] = 0

====
